---- MODULE Spec2Model ----
(***************************************************************************)
(* A model of the crawl engine of url-scan.go: the pending queue, the      *)
(* visited map, the WaitGroup, the worker loop with processURL and         *)
(* extractURLsFromScript, the two sink intakes with their writer loops,    *)
(* and the scope classifier isInScope.                                     *)
(***************************************************************************)
EXTENDS Integers, Sequences, FiniteSets, TLC

(***************************************************************************)
(* Bounds of the model.                                                    *)
(***************************************************************************)
\* capacity of the pending queue; stands for make(chan string, 100)
QueueCap == 2
\* most candidates the pages of one crawl carry, all pages together
MaxLinks == 3
\* most URL literals the asset bodies of one crawl carry, all assets together
MaxBody == 1
\* longest inScope / outScope list the classifier is tried on
MaxScope == 2
\* workers started on one Crawler in the N-worker specification
NumWorkers == 2
\* most candidates and most URL literals one crawl carries in the N-worker
\* specification
MaxLinksN == 1
MaxBodyN == 1
\* most candidates, URL literals and failing WriteString calls one crawl
\* carries in the specification with write failures
MaxLinksW == 1
MaxBodyW == 1
MaxWriteFails == 1

(***************************************************************************)
(* Strings are sequences of one-character strings, so that                 *)
(* strings.HasSuffix is computed and not assumed.                          *)
(***************************************************************************)
HasSuffix(s, suffix) ==
    /\ Len(suffix) <= Len(s)
    /\ SubSeq(s, Len(s) - Len(suffix) + 1, Len(s)) = suffix

\* A URL is its scheme, its host (url.Parse's Host) and the rest of the string.
URL(scheme, host, path) == [scheme |-> scheme, host |-> host, path |-> path]

SchemeChars(scheme) ==
    CASE scheme = "http"  -> <<"h", "t", "t", "p">>
      [] scheme = "https" -> <<"h", "t", "t", "p", "s">>
      [] scheme = "ftp"   -> <<"f", "t", "p">>

\* the URL as the string the Go code holds
URLString(u) == SchemeChars(u.scheme) \o <<":", "/", "/">> \o u.host \o u.path

\* url.Parse fails on a host with an invalid character (a space)
ParseOK(u) == \A i \in 1..Len(u.host) : u.host[i] # " "

HostA   == <<"a">>
HostBA  == <<"b", ".", "a">>
HostXA  == <<"x", "a">>
HostE   == <<"e">>
HostBad == <<"a", " ", "b">>

Seed     == URL("http", HostA, <<"/">>)
ScriptJS == URL("http", HostA, <<"/", "s", ".", "j", "s">>)
External == URL("http", HostE, <<"/", "x">>)
FtpJS    == URL("ftp", HostA, <<"/", "f", ".", "j", "s">>)

\* candidates a page can carry, and URL literals an asset body can carry
URLs     == {Seed, ScriptJS, External, FtpJS}
BodyURLs == {Seed, ScriptJS, External}

\* URLs the classifier alone is tried on
ScopeURLs == URLs \cup { URL("https", HostBA, <<"/">>),
                         URL("http", HostXA, <<"/", "y">>),
                         URL("http", HostBad, <<"/">>) }

Suffixes == { <<>>, HostA, HostBA, HostE }

SeqsUpTo(S, n) == UNION { [1..k -> S] : k \in 0..n }

Max(a, b) == IF a >= b THEN a ELSE b

LinkSeqs == SeqsUpTo(URLs, Max(MaxLinks, Max(MaxLinksN, MaxLinksW)))
BodySeqs == SeqsUpTo(BodyURLs, Max(MaxBody, Max(MaxBodyN, MaxBodyW)))

Workers == 1..NumWorkers
Streams == {"in", "out"}

VARIABLES
    proc,      \* "running", "exited" (main returned), "fatal" (log.Fatalf), "panic"
    pcMain,    \* position of Crawl
    nWorkers,  \* how many workers Crawl starts
    Queue,     \* c.Queue
    Visited,   \* c.Visited
    WG,        \* c.WG counter
    InScope,   \* c.InScope
    OutScope,  \* c.OutScope
    wk,        \* per worker: position and locals of worker/processURL
    chClosed,  \* per intake: closed
    pcW,       \* position of writeToFiles
    created,   \* destinations created so far
    files,     \* per destination: the lines written
    pcL,       \* per writer loop: position
    held,      \* per writer loop: the record received and not yet written
    passed,    \* history: per URL, processURL calls that passed the visited check
    skipped,   \* history: per URL, processURL calls that returned at the visited check
    enqueued,  \* history: per URL, sends to c.Queue
    sent,      \* history: per intake, the records sent
    fetched,   \* history: per URL, calls of fetchURL (as a page, as an asset)
    bodyFound, \* history: the URL literals extractURLsFromScript found
    assetRecs, \* history: the sends of extractURLsFromScript, [s, rec]
    writeFailed, \* history: per intake, positions in sent of the records
               \* whose WriteString failed
    linksLeft, \* environment: candidates the pages still to fetch can carry
    bodyLeft,  \* environment: URL literals the assets still to fetch can carry
    writeFailsLeft, \* environment: WriteString calls that can still fail
    scopeU,    \* classifier specification: the URL tried
    scopeRes,  \* classifier specification: isInScope's result
    fetchCall  \* fetcher specification: the last call of fetchURL

policy == <<InScope, OutScope>>
sink   == <<pcW, created, files, pcL, held>>
trace  == <<bodyFound, assetRecs, writeFailed>>
hist   == <<passed, skipped, enqueued, sent, fetched, trace>>
scope  == <<scopeU, scopeRes>>
pure   == <<scope, fetchCall>>
env    == <<linksLeft, bodyLeft, writeFailsLeft>>
vars   == <<proc, pcMain, nWorkers, Queue, Visited, WG, policy, wk, chClosed,
            sink, hist, env, pure>>

(***************************************************************************)
(* Pure functions of the crawler.                                          *)
(***************************************************************************)
codeExtensions == <<
    <<".", "j", "s">>,
    <<".", "j", "s", "p">>,
    <<".", "x", "m", "l">>,
    <<".", "h", "t", "m", "l">>,
    <<".", "h", "t", "m">>,
    <<".", "p", "h", "p">>,
    <<".", "a", "s", "p">>,
    <<".", "a", "s", "p", "x">>,
    <<".", "c", "s", "s">>,
    <<".", "j", "s", "o", "n">>,
    <<".", "t", "x", "t">>,
    <<".", "m", "d">>,
    <<".", "y", "a", "m", "l">>,
    <<".", "c", "s", "v">>,
    <<".", "d", "o", "c">>,
    <<".", "d", "o", "c", "x">>,
    <<".", "p", "d", "f">>,
    <<".", "p", "p", "t">>,
    <<".", "p", "p", "t", "x">>,
    <<".", "x", "l", "s">>,
    <<".", "x", "l", "s", "x">>,
    <<".", "t", "s">>,
    <<".", "p", "y">>,
    <<".", "r", "b">>,
    <<".", "j", "a", "v", "a">>,
    <<".", "c">>,
    <<".", "h">>,
    <<".", "c", "s">>,
    <<".", "s", "w", "i", "f", "t">>,
    <<".", "k", "t">>,
    <<".", "p", "l">>,
    <<".", "s", "h">>,
    <<".", "b", "a", "t">>,
    <<".", "g", "o">> >>

isCodeFile(u) ==
    \E i \in 1..Len(codeExtensions) : HasSuffix(URLString(u), codeExtensions[i])

\* regexp ^https?://
isValidURL(u) == u.scheme \in {"http", "https"}

\* isInScope without the loop over c.OutScope
isInScopeNoOutScope(u) ==
    IF ~ParseOK(u) THEN FALSE
    ELSE IF \E i \in 1..Len(InScope) : HasSuffix(u.host, InScope[i]) THEN TRUE
    ELSE Len(InScope) = 0

\* url.Parse, the loop over c.InScope, the loop over c.OutScope, the default
isInScope(u) ==
    IF ~ParseOK(u) THEN FALSE
    ELSE IF \E i \in 1..Len(InScope) : HasSuffix(u.host, InScope[i]) THEN TRUE
    ELSE IF \E i \in 1..Len(OutScope) : HasSuffix(u.host, OutScope[i]) THEN FALSE
    ELSE Len(InScope) = 0

\* the record lines processURL and extractURLsFromScript send
InRec(u)  == [kind |-> "In-scope", url |-> u]
OutRec(u) == [kind |-> "Out-Of-Scope", url |-> u]
Header(s) == IF s = "in" THEN "--IN SCOPE URLS:---" ELSE "--OUT OF SCOPE URLS:---"

NoURL  == URL("", <<>>, <<>>)
NoRec  == [kind |-> "", url |-> NoURL]
Idle   == [pc |-> "off", pageURL |-> NoURL, urls |-> <<>>, body |-> <<>>,
           failed |-> FALSE]
NoFile == [header |-> <<>>, lines |-> <<>>]

\* what main builds from the -inscope and -outscope flags (strings.Split never
\* returns an empty list: an empty flag gives the one-element list [""])
CrawlPolicies == { <<<<HostA>>, <<HostE>>>>, <<<< <<>> >>, <<HostA>>>> }

(***************************************************************************)
(* fetchURL.  What a client.Do call gives back is the environment's choice: *)
(* an error, or a response with a status code.                             *)
(***************************************************************************)
StatusOK == 200
StatusCodes == {StatusOK, 404, 500}

DoError   == [err |-> TRUE, status |-> 0]
Responses == {DoError} \cup {[err |-> FALSE, status |-> c] : c \in StatusCodes}

\* client.Do refuses a scheme that is neither http nor https
DoResponses(u) == IF u.scheme \in {"http", "https"} THEN Responses ELSE {DoError}

\* fetchURL that asks the same URL again, the scheme not flipped
fetchURLSameScheme(u, r1, r2) ==
    IF ~ParseOK(u)
      THEN [requests |-> <<>>, resp |-> DoError]
      ELSE IF ~r1.err /\ r1.status = StatusOK
             THEN [requests |-> <<u>>, resp |-> r1]
             ELSE [requests |-> <<u, u>>, resp |-> r2]

\* fetchURL(pageURL) when the first client.Do gives r1 and a second one gives
\* r2: the URLs requested, in order, and the (resp, err) returned
fetchURL(u, r1, r2) ==
    IF ~ParseOK(u)
      THEN [requests |-> <<>>, resp |-> DoError]
      ELSE IF ~r1.err /\ r1.status = StatusOK
             THEN [requests |-> <<u>>, resp |-> r1]
             ELSE LET flipped == IF u.scheme = "http"
                                   THEN [u EXCEPT !.scheme = "https"]
                                   ELSE [u EXCEPT !.scheme = "http"]
                  IN  [requests |-> <<u, flipped>>, resp |-> r2]

\* what a call of fetchURL(u) can return
FetchOutcomes(u) ==
    { fetchURL(u, r1, r2).resp : r1 \in DoResponses(u), r2 \in Responses }

\* the callers' test: err != nil || resp.StatusCode != http.StatusOK
FetchFailed(resp) == resp.err \/ resp.status # StatusOK

NoCall == [u |-> NoURL, r1 |-> DoError, r2 |-> DoError,
           out |-> [requests |-> <<>>, resp |-> DoError]]

(***************************************************************************)
(* The state after NewCrawler, before Crawl runs.                          *)
(***************************************************************************)
InitCrawler ==
    /\ proc = "running"
    /\ pcMain = "goWriter"
    /\ Queue = <<>>
    /\ Visited = {}
    /\ WG = 0
    /\ wk = [w \in Workers |-> Idle]
    /\ chClosed = [s \in Streams |-> FALSE]
    /\ pcW = "off"
    /\ created = {}
    /\ files = [s \in Streams |-> NoFile]
    /\ pcL = [s \in Streams |-> "off"]
    /\ held = [s \in Streams |-> NoRec]
    /\ passed = [u \in URLs |-> 0]
    /\ skipped = [u \in URLs |-> 0]
    /\ enqueued = [u \in URLs |-> 0]
    /\ sent = [s \in Streams |-> <<>>]
    /\ fetched = [u \in URLs |-> [page |-> 0, asset |-> 0]]
    /\ bodyFound = <<>>
    /\ assetRecs = <<>>
    /\ writeFailed = [s \in Streams |-> {}]
    /\ scopeU = NoURL
    /\ scopeRes = FALSE
    /\ fetchCall = NoCall

\* main: one worker; every WriteString succeeds (SpecW lets writes fail)
Init ==
    /\ InitCrawler
    /\ nWorkers = 1
    /\ linksLeft = MaxLinks
    /\ bodyLeft = MaxBody
    /\ writeFailsLeft = 0
    /\ \E p \in CrawlPolicies : InScope = p[1] /\ OutScope = p[2]

(***************************************************************************)
(* Crawl                                                                   *)
(***************************************************************************)
Running == proc = "running"

\* go c.writeToFiles(...)
GoWriter ==
    /\ Running /\ pcMain = "goWriter"
    /\ pcMain' = "seed"
    /\ pcW' = "createIn"
    /\ UNCHANGED <<proc, nWorkers, Queue, Visited, WG, policy, wk, chClosed,
                   created, files, pcL, held, hist, pure, env>>

\* c.Queue <- startURL
SeedQueue ==
    /\ Running /\ pcMain = "seed"
    /\ Len(Queue) < QueueCap
    /\ Queue' = Append(Queue, Seed)
    /\ enqueued' = [enqueued EXCEPT ![Seed] = @ + 1]
    /\ pcMain' = "add"
    /\ UNCHANGED <<proc, nWorkers, Visited, WG, policy, wk, chClosed, sink,
                   passed, skipped, sent, fetched, trace, pure, env>>

\* c.WG.Add(1)
SeedAdd ==
    /\ Running /\ pcMain = "add"
    /\ WG' = WG + 1
    /\ pcMain' = "goWorker"
    /\ UNCHANGED <<proc, nWorkers, Queue, Visited, policy, wk, chClosed, sink,
                   hist, pure, env>>

\* go c.worker(...)
GoWorker ==
    /\ Running /\ pcMain = "goWorker"
    /\ wk' = [w \in Workers |-> IF w <= nWorkers THEN [Idle EXCEPT !.pc = "range"]
                                                ELSE wk[w]]
    /\ pcMain' = "wait"
    /\ UNCHANGED <<proc, nWorkers, Queue, Visited, WG, policy, chClosed, sink,
                   hist, pure, env>>

\* c.WG.Wait()
Wait ==
    /\ Running /\ pcMain = "wait"
    /\ WG = 0
    /\ pcMain' = "closeIn"
    /\ UNCHANGED <<proc, nWorkers, Queue, Visited, WG, policy, wk, chClosed,
                   sink, hist, pure, env>>

\* close(inScopeCh)
CloseIn ==
    /\ Running /\ pcMain = "closeIn"
    /\ chClosed' = [chClosed EXCEPT !["in"] = TRUE]
    /\ pcMain' = "closeOut"
    /\ UNCHANGED <<proc, nWorkers, Queue, Visited, WG, policy, wk, sink, hist,
                   pure, env>>

\* close(outScopeCh)
CloseOut ==
    /\ Running /\ pcMain = "closeOut"
    /\ chClosed' = [chClosed EXCEPT !["out"] = TRUE]
    /\ pcMain' = "log"
    /\ UNCHANGED <<proc, nWorkers, Queue, Visited, WG, policy, wk, sink, hist,
                   pure, env>>

\* log.Println("SCAN FINISHED"); Crawl returns to main, main returns
Finish ==
    /\ Running /\ pcMain = "log"
    /\ pcMain' = "finished"
    /\ proc' = "exited"
    /\ UNCHANGED <<nWorkers, Queue, Visited, WG, policy, wk, chClosed, sink,
                   hist, pure, env>>

(***************************************************************************)
(* writeToFiles and its two writer loops                                   *)
(***************************************************************************)
\* os.Create(inScopeFile), log.Fatalf on error
CreateIn ==
    /\ Running /\ pcW = "createIn"
    /\ \E ok \in BOOLEAN :
         IF ok THEN /\ created' = created \cup {"in"}
                    /\ pcW' = "createOut"
                    /\ proc' = proc
               ELSE /\ proc' = "fatal"
                    /\ UNCHANGED <<created, pcW>>
    /\ UNCHANGED <<pcMain, nWorkers, Queue, Visited, WG, policy, wk, chClosed,
                   files, pcL, held, hist, pure, env>>

\* os.Create(outScopeFile), log.Fatalf on error
CreateOut ==
    /\ Running /\ pcW = "createOut"
    /\ \E ok \in BOOLEAN :
         IF ok THEN /\ created' = created \cup {"out"}
                    /\ pcW' = "headers"
                    /\ proc' = proc
               ELSE /\ proc' = "fatal"
                    /\ UNCHANGED <<created, pcW>>
    /\ UNCHANGED <<pcMain, nWorkers, Queue, Visited, WG, policy, wk, chClosed,
                   files, pcL, held, hist, pure, env>>

\* the two header lines, then wg.Add(2) and the two go func()
WriteHeaders ==
    /\ Running /\ pcW = "headers"
    /\ files' = [s \in Streams |-> [files[s] EXCEPT !.header = <<Header(s)>>]]
    /\ pcL' = [s \in Streams |-> "recv"]
    /\ pcW' = "waitLoops"
    /\ UNCHANGED <<proc, pcMain, nWorkers, Queue, Visited, WG, policy, wk,
                   chClosed, created, held, hist, pure, env>>

\* LoopWrite that puts the record in front of the lines already written
LoopWritePrepend(s) ==
    /\ Running /\ pcL[s] = "write"
    /\ \/ /\ files' = [files EXCEPT ![s].lines = <<held[s]>> \o @]
          /\ UNCHANGED <<writeFailed, writeFailsLeft>>
       \/ /\ writeFailsLeft > 0
          /\ writeFailsLeft' = writeFailsLeft - 1
          /\ writeFailed' = [writeFailed EXCEPT ![s] = @ \cup {Len(sent[s])}]
          /\ UNCHANGED files
    /\ held' = [held EXCEPT ![s] = NoRec]
    /\ pcL' = [pcL EXCEPT ![s] = "recv"]
    /\ UNCHANGED <<proc, pcMain, nWorkers, Queue, Visited, WG, policy, wk,
                   chClosed, pcW, created, passed, skipped, enqueued,
                   sent, fetched, bodyFound, assetRecs, linksLeft,
                   bodyLeft, pure>>

\* WriteString(u + "\n") of the record the loop received; a failure is
\* logged and the loop goes on
LoopWrite(s) ==
    /\ Running /\ pcL[s] = "write"
    /\ \/ /\ files' = [files EXCEPT ![s].lines = Append(@, held[s])]
          /\ UNCHANGED <<writeFailed, writeFailsLeft>>
       \/ /\ writeFailsLeft > 0
          /\ writeFailsLeft' = writeFailsLeft - 1
          /\ writeFailed' = [writeFailed EXCEPT ![s] = @ \cup {Len(sent[s])}]
          /\ UNCHANGED files
    /\ held' = [held EXCEPT ![s] = NoRec]
    /\ pcL' = [pcL EXCEPT ![s] = "recv"]
    /\ UNCHANGED <<proc, pcMain, nWorkers, Queue, Visited, WG, policy, wk,
                   chClosed, pcW, created, passed, skipped, enqueued,
                   sent, fetched, bodyFound, assetRecs, linksLeft,
                   bodyLeft, pure>>

\* range over a closed intake ends; defer wg.Done()
LoopExit(s) ==
    /\ Running /\ pcL[s] = "recv" /\ chClosed[s]
    /\ pcL' = [pcL EXCEPT ![s] = "done"]
    /\ UNCHANGED <<proc, pcMain, nWorkers, Queue, Visited, WG, policy, wk,
                   chClosed, pcW, created, files, held, hist, pure,
                   env>>

\* wg.Wait() returns, the deferred Close calls run
WriterReturn ==
    /\ Running /\ pcW = "waitLoops"
    /\ \A s \in Streams : pcL[s] = "done"
    /\ pcW' = "returned"
    /\ UNCHANGED <<proc, pcMain, nWorkers, Queue, Visited, WG, policy, wk,
                   chClosed, created, files, pcL, held, hist, pure,
                   env>>

(***************************************************************************)
(* worker, processURL and extractURLsFromScript                            *)
(***************************************************************************)
\* a send on the unbuffered intake s, taken by the writer loop of s
ChanSend(s, rec) ==
    /\ ~chClosed[s]
    /\ pcL[s] = "recv"
    /\ pcL' = [pcL EXCEPT ![s] = "write"]
    /\ held' = [held EXCEPT ![s] = rec]
    /\ sent' = [sent EXCEPT ![s] = Append(@, rec)]

\* a send on a closed channel panics
SendPanics(s) ==
    /\ chClosed[s]
    /\ proc' = "panic"
    /\ UNCHANGED <<wk, pcL, held, sent>>

\* for url := range c.Queue
Dequeue(w) ==
    /\ Running /\ wk[w].pc = "range"
    /\ Queue # <<>>
    /\ wk' = [wk EXCEPT ![w] = [Idle EXCEPT !.pc = "lock", !.pageURL = Head(Queue)]]
    /\ Queue' = Tail(Queue)
    /\ UNCHANGED <<proc, pcMain, nWorkers, Visited, WG, policy, chClosed, sink,
                   hist, pure, env>>

\* CheckVisited without the line c.Visited[pageURL] = true
CheckVisitedUnset(w) ==
    /\ Running /\ wk[w].pc = "lock"
    /\ IF wk[w].pageURL \in Visited
         THEN /\ wk' = [wk EXCEPT ![w].pc = "done"]
              /\ skipped' = [skipped EXCEPT ![wk[w].pageURL] = @ + 1]
              /\ UNCHANGED <<Visited, passed>>
         ELSE /\ Visited' = Visited
              /\ passed' = [passed EXCEPT ![wk[w].pageURL] = @ + 1]
              /\ wk' = [wk EXCEPT ![w].pc = "fetch"]
              /\ UNCHANGED skipped
    /\ UNCHANGED <<proc, pcMain, nWorkers, Queue, WG, policy, chClosed, sink,
                   enqueued, sent, fetched, trace, pure, env>>

\* the critical section of processURL: check c.Visited and set it
CheckVisited(w) ==
    /\ Running /\ wk[w].pc = "lock"
    /\ IF wk[w].pageURL \in Visited
         THEN /\ wk' = [wk EXCEPT ![w].pc = "done"]
              /\ skipped' = [skipped EXCEPT ![wk[w].pageURL] = @ + 1]
              /\ UNCHANGED <<Visited, passed>>
         ELSE /\ Visited' = Visited \cup {wk[w].pageURL}
              /\ passed' = [passed EXCEPT ![wk[w].pageURL] = @ + 1]
              /\ wk' = [wk EXCEPT ![w].pc = "fetch"]
              /\ UNCHANGED skipped
    /\ UNCHANGED <<proc, pcMain, nWorkers, Queue, WG, policy, chClosed, sink,
                   enqueued, sent, fetched, trace, pure, env>>

\* FetchPage with log.Fatalf in place of log.Printf on a failed page
FetchPageFatal(w) ==
    /\ Running /\ wk[w].pc = "fetch"
    /\ fetched' = [fetched EXCEPT ![wk[w].pageURL].page = @ + 1]
    /\ \E resp \in FetchOutcomes(wk[w].pageURL) :
         IF FetchFailed(resp)
           THEN /\ wk' = [wk EXCEPT ![w].pc = "done", ![w].failed = TRUE]
                /\ proc' = "fatal"
                /\ UNCHANGED linksLeft
           ELSE \/ /\ wk' = [wk EXCEPT ![w].pc = "done",
                                       ![w].failed = TRUE]
                   /\ proc' = "fatal"
                   /\ UNCHANGED linksLeft
                \/ \E links \in LinkSeqs :
                     /\ Len(links) <= linksLeft
                     /\ linksLeft' = linksLeft - Len(links)
                     /\ wk' = [wk EXCEPT ![w].pc = "loop", ![w].urls = links]
                     /\ proc' = proc
    /\ UNCHANGED <<pcMain, nWorkers, Queue, Visited, WG, policy,
                   chClosed, sink, passed, skipped, enqueued, sent,
                   trace, pure, bodyLeft, writeFailsLeft>>

\* fetchURL(pageURL), html.Parse and extractLinks: the page's candidates, or an
\* error (fetch or parse) that ends processURL
FetchPage(w) ==
    /\ Running /\ wk[w].pc = "fetch"
    /\ fetched' = [fetched EXCEPT ![wk[w].pageURL].page = @ + 1]
    /\ \E resp \in FetchOutcomes(wk[w].pageURL) :
         IF FetchFailed(resp)
           THEN /\ wk' = [wk EXCEPT ![w].pc = "done", ![w].failed = TRUE]
                /\ UNCHANGED linksLeft
           ELSE \/ /\ wk' = [wk EXCEPT ![w].pc = "done",
                                       ![w].failed = TRUE]
                   /\ UNCHANGED linksLeft
                \/ \E links \in LinkSeqs :
                     /\ Len(links) <= linksLeft
                     /\ linksLeft' = linksLeft - Len(links)
                     /\ wk' = [wk EXCEPT ![w].pc = "loop", ![w].urls = links]
    /\ UNCHANGED <<proc, pcMain, nWorkers, Queue, Visited, WG, policy,
                   chClosed, sink, passed, skipped, enqueued, sent,
                   trace, pure, bodyLeft, writeFailsLeft>>

\* LoopStep without the isInScope test: every valid candidate is followed
LoopStepNoScope(w) ==
    /\ Running /\ wk[w].pc = "loop"
    /\ IF wk[w].urls = <<>>
         THEN wk' = [wk EXCEPT ![w].pc = "done"]
         ELSE LET u == Head(wk[w].urls) IN
              IF isValidURL(u)
                THEN wk' = [wk EXCEPT ![w].pc = "sendIn"]
                ELSE wk' = [wk EXCEPT ![w].pc = "code"]
    /\ UNCHANGED <<proc, pcMain, nWorkers, Queue, Visited, WG, policy,
                   chClosed, sink, hist, pure, env>>

\* for _, u := range urls: isValidURL and isInScope choose the branch
LoopStep(w) ==
    /\ Running /\ wk[w].pc = "loop"
    /\ IF wk[w].urls = <<>>
         THEN wk' = [wk EXCEPT ![w].pc = "done"]
         ELSE LET u == Head(wk[w].urls) IN
              IF isValidURL(u)
                THEN IF isInScope(u)
                       THEN wk' = [wk EXCEPT ![w].pc = "sendIn"]
                       ELSE wk' = [wk EXCEPT ![w].pc = "sendOut"]
                ELSE wk' = [wk EXCEPT ![w].pc = "code"]
    /\ UNCHANGED <<proc, pcMain, nWorkers, Queue, Visited, WG, policy,
                   chClosed, sink, hist, pure, env>>

\* inScopeCh <- "In-scope: " + u
SendIn(w) ==
    /\ Running /\ wk[w].pc = "sendIn"
    /\ \/ /\ ChanSend("in", InRec(Head(wk[w].urls)))
          /\ wk' = [wk EXCEPT ![w].pc = "enqueue"]
          /\ proc' = proc
       \/ SendPanics("in")
    /\ UNCHANGED <<pcMain, nWorkers, Queue, Visited, WG, policy, chClosed, pcW,
                   created, files, passed, skipped, enqueued, fetched,
                   trace, pure, env>>

\* c.Queue <- u
Enqueue(w) ==
    /\ Running /\ wk[w].pc = "enqueue"
    /\ Len(Queue) < QueueCap
    /\ Queue' = Append(Queue, Head(wk[w].urls))
    /\ enqueued' = [enqueued EXCEPT ![Head(wk[w].urls)] = @ + 1]
    /\ wk' = [wk EXCEPT ![w].pc = "add"]
    /\ UNCHANGED <<proc, pcMain, nWorkers, Visited, WG, policy, chClosed, sink,
                   passed, skipped, sent, fetched, trace, pure, env>>

\* Add without the increment of the counter
AddNoCount(w) ==
    /\ Running /\ wk[w].pc = "add"
    /\ WG' = WG
    /\ wk' = [wk EXCEPT ![w].pc = "code"]
    /\ UNCHANGED <<proc, pcMain, nWorkers, Queue, Visited, policy, chClosed,
                   sink, hist, pure, env>>

\* processURL: c.WG.Add(1) after the send to c.Queue
Add(w) ==
    /\ Running /\ wk[w].pc = "add"
    /\ WG' = WG + 1
    /\ wk' = [wk EXCEPT ![w].pc = "code"]
    /\ UNCHANGED <<proc, pcMain, nWorkers, Queue, Visited, policy, chClosed,
                   sink, hist, pure, env>>

\* outScopeCh <- "Out-Of-Scope: " + u
SendOut(w) ==
    /\ Running /\ wk[w].pc = "sendOut"
    /\ \/ /\ ChanSend("out", OutRec(Head(wk[w].urls)))
          /\ wk' = [wk EXCEPT ![w].pc = "code"]
          /\ proc' = proc
       \/ SendPanics("out")
    /\ UNCHANGED <<pcMain, nWorkers, Queue, Visited, WG, policy, chClosed, pcW,
                   created, files, passed, skipped, enqueued, fetched,
                   trace, pure, env>>

\* if isCodeFile(u) { c.extractURLsFromScript(u, ...) }, else the next candidate
CodeStep(w) ==
    /\ Running /\ wk[w].pc = "code"
    /\ IF isCodeFile(Head(wk[w].urls))
         THEN wk' = [wk EXCEPT ![w].pc = "assetFetch"]
         ELSE wk' = [wk EXCEPT ![w].pc = "loop", ![w].urls = Tail(@)]
    /\ UNCHANGED <<proc, pcMain, nWorkers, Queue, Visited, WG, policy,
                   chClosed, sink, hist, pure, env>>

\* extractURLsFromScript: fetchURL(scriptURL), io.ReadAll and the regexp
AssetFetch(w) ==
    /\ Running /\ wk[w].pc = "assetFetch"
    /\ fetched' = [fetched EXCEPT ![Head(wk[w].urls)].asset = @ + 1]
    /\ \E resp \in FetchOutcomes(Head(wk[w].urls)) :
         IF FetchFailed(resp)
           THEN /\ wk' = [wk EXCEPT ![w].pc = "loop", ![w].urls = Tail(@)]
                /\ UNCHANGED <<bodyLeft, bodyFound>>
           ELSE \* io.ReadAll fails, or the regexp finds the literals
                \/ /\ wk' = [wk EXCEPT ![w].pc = "loop", ![w].urls = Tail(@)]
                   /\ UNCHANGED <<bodyLeft, bodyFound>>
                \/ \E found \in BodySeqs :
                     /\ Len(found) <= bodyLeft
                     /\ bodyLeft' = bodyLeft - Len(found)
                     /\ bodyFound' = bodyFound \o found
                     /\ wk' = [wk EXCEPT ![w].pc = "assetLoop",
                                         ![w].body = found]
    /\ UNCHANGED <<proc, pcMain, nWorkers, Queue, Visited, WG, policy,
                   chClosed, sink, passed, skipped, enqueued, sent,
                   assetRecs, writeFailed, pure, linksLeft,
                   writeFailsLeft>>

\* AssetLoop that reports the in-scope literals only
AssetLoopInScopeOnly(w) ==
    /\ Running /\ wk[w].pc = "assetLoop"
    /\ IF wk[w].body = <<>>
         THEN wk' = [wk EXCEPT ![w].pc = "loop", ![w].urls = Tail(@)]
         ELSE IF isInScope(Head(wk[w].body))
                THEN wk' = [wk EXCEPT ![w].pc = "assetSendIn"]
                ELSE wk' = [wk EXCEPT ![w].body = Tail(@)]
    /\ UNCHANGED <<proc, pcMain, nWorkers, Queue, Visited, WG, policy,
                   chClosed, sink, hist, pure, env>>

\* extractURLsFromScript: for _, u := range urls, isInScope chooses the intake
AssetLoop(w) ==
    /\ Running /\ wk[w].pc = "assetLoop"
    /\ IF wk[w].body = <<>>
         THEN wk' = [wk EXCEPT ![w].pc = "loop", ![w].urls = Tail(@)]
         ELSE IF isInScope(Head(wk[w].body))
                THEN wk' = [wk EXCEPT ![w].pc = "assetSendIn"]
                ELSE wk' = [wk EXCEPT ![w].pc = "assetSendOut"]
    /\ UNCHANGED <<proc, pcMain, nWorkers, Queue, Visited, WG, policy,
                   chClosed, sink, hist, pure, env>>

\* extractURLsFromScript: inScopeCh <- "In-scope: " + u
AssetSendIn(w) ==
    /\ Running /\ wk[w].pc = "assetSendIn"
    /\ \/ /\ ChanSend("in", InRec(Head(wk[w].body)))
          /\ assetRecs' = Append(assetRecs,
                                 [s |-> "in", rec |-> InRec(Head(wk[w].body))])
          /\ wk' = [wk EXCEPT ![w].pc = "assetLoop", ![w].body = Tail(@)]
          /\ proc' = proc
       \/ SendPanics("in") /\ UNCHANGED assetRecs
    /\ UNCHANGED <<pcMain, nWorkers, Queue, Visited, WG, policy, chClosed, pcW,
                   created, files, passed, skipped, enqueued, fetched,
                   bodyFound, writeFailed, pure, env>>

\* extractURLsFromScript: outScopeCh <- "Out-Of-Scope: " + u
AssetSendOut(w) ==
    /\ Running /\ wk[w].pc = "assetSendOut"
    /\ \/ /\ ChanSend("out", OutRec(Head(wk[w].body)))
          /\ assetRecs' = Append(assetRecs,
                                 [s |-> "out", rec |-> OutRec(Head(wk[w].body))])
          /\ wk' = [wk EXCEPT ![w].pc = "assetLoop", ![w].body = Tail(@)]
          /\ proc' = proc
       \/ SendPanics("out") /\ UNCHANGED assetRecs
    /\ UNCHANGED <<pcMain, nWorkers, Queue, Visited, WG, policy, chClosed, pcW,
                   created, files, passed, skipped, enqueued, fetched,
                   bodyFound, writeFailed, pure, env>>

\* c.WG.Done(): a negative counter panics
Done(w) ==
    /\ Running /\ wk[w].pc = "done"
    /\ IF WG = 0
         THEN /\ proc' = "panic"
              /\ UNCHANGED <<WG, wk>>
         ELSE /\ WG' = WG - 1
              /\ wk' = [wk EXCEPT ![w] = [Idle EXCEPT !.pc = "range"]]
              /\ proc' = proc
    /\ UNCHANGED <<pcMain, nWorkers, Queue, Visited, policy, chClosed, sink,
                   hist, pure, env>>

(***************************************************************************)
(* Specifications                                                          *)
(***************************************************************************)
MainStep == GoWriter \/ SeedQueue \/ SeedAdd \/ GoWorker \/ Wait \/ CloseIn
            \/ CloseOut \/ Finish

WriterStep == CreateIn \/ CreateOut \/ WriteHeaders \/ WriterReturn
              \/ \E s \in Streams : LoopWrite(s) \/ LoopExit(s)

WorkerStep(w) == Dequeue(w) \/ CheckVisited(w) \/ FetchPage(w) \/ LoopStep(w)
                 \/ SendIn(w) \/ Enqueue(w) \/ Add(w) \/ SendOut(w) \/ CodeStep(w)
                 \/ AssetFetch(w) \/ AssetLoop(w) \/ AssetSendIn(w)
                 \/ AssetSendOut(w) \/ Done(w)

Next == MainStep \/ WriterStep \/ \E w \in Workers : WorkerStep(w)

\* Crawl as written: one worker
Spec == Init /\ [][Next]_vars

\* the same Crawler with NumWorkers workers running the worker loop, started
\* with -inscope a -outscope e
InitN ==
    /\ InitCrawler
    /\ nWorkers = NumWorkers
    /\ linksLeft = MaxLinksN
    /\ bodyLeft = MaxBodyN
    /\ writeFailsLeft = 0
    /\ InScope = <<HostA>> /\ OutScope = <<HostE>>

SpecN == InitN /\ [][Next]_vars

\* every goroutine that can take a step eventually takes one
FairSpec ==
    /\ Spec
    /\ WF_vars(MainStep)
    /\ WF_vars(WriterStep)
    /\ \A w \in Workers : WF_vars(WorkerStep(w))

(***************************************************************************)
(* The classifier alone: a policy from bounded lists, isInScope applied to *)
(* one URL after another.                                                  *)
(***************************************************************************)
ScopeLists == SeqsUpTo(Suffixes, MaxScope)

InitScope ==
    /\ InitCrawler
    /\ nWorkers = 1
    /\ linksLeft = 0
    /\ bodyLeft = 0
    /\ writeFailsLeft = 0
    /\ InScope \in ScopeLists
    /\ OutScope \in ScopeLists

Classify(u) ==
    /\ scopeU' = u
    /\ scopeRes' = isInScope(u)
    /\ UNCHANGED <<proc, pcMain, nWorkers, Queue, Visited, WG, policy, wk,
                   chClosed, sink, hist, env, fetchCall>>

NextScope == \E u \in ScopeURLs : Classify(u)

SpecScope == InitScope /\ [][NextScope]_vars

(***************************************************************************)
(* The fetcher alone: fetchURL applied to one URL after another, with the  *)
(* answers of the two client.Do calls drawn from Responses.                *)
(***************************************************************************)
Fetch(u, r1, r2) ==
    /\ fetchCall' = [u |-> u, r1 |-> r1, r2 |-> r2, out |-> fetchURL(u, r1, r2)]
    /\ UNCHANGED <<proc, pcMain, nWorkers, Queue, Visited, WG, policy, wk,
                   chClosed, sink, hist, env, scope>>

NextFetch == \E u \in ScopeURLs : \E r1 \in DoResponses(u), r2 \in Responses :
                 Fetch(u, r1, r2)

InitFetch ==
    /\ InitCrawler
    /\ nWorkers = 1
    /\ linksLeft = 0
    /\ bodyLeft = 0
    /\ writeFailsLeft = 0
    /\ \E p \in CrawlPolicies : InScope = p[1] /\ OutScope = p[2]

SpecFetch == InitFetch /\ [][NextFetch]_vars

(***************************************************************************)
(* The crawl of Spec in an environment where WriteString can fail.         *)
(***************************************************************************)
InitW ==
    /\ InitCrawler
    /\ nWorkers = 1
    /\ linksLeft = MaxLinksW
    /\ bodyLeft = MaxBodyW
    /\ writeFailsLeft = MaxWriteFails
    /\ \E p \in CrawlPolicies : InScope = p[1] /\ OutScope = p[2]

SpecW == InitW /\ [][Next]_vars

(***************************************************************************)
(* The older variant of the crawler: one intake, c.OutputCh, for the       *)
(* records of both kinds, and writeToFile with one destination file.  Its  *)
(* worker loop, visited check, enqueue and counter are those above.        *)
(***************************************************************************)
OldStreams == {"output"}

InitOld ==
    /\ proc = "running"
    /\ pcMain = "goWriter"
    /\ nWorkers = 1
    /\ Queue = <<>>
    /\ Visited = {}
    /\ WG = 0
    /\ wk = [w \in Workers |-> Idle]
    /\ chClosed = [s \in OldStreams |-> FALSE]
    /\ pcW = "off"
    /\ created = {}
    /\ files = [s \in OldStreams |-> NoFile]
    /\ pcL = [s \in OldStreams |-> "off"]
    /\ held = [s \in OldStreams |-> NoRec]
    /\ passed = [u \in URLs |-> 0]
    /\ skipped = [u \in URLs |-> 0]
    /\ enqueued = [u \in URLs |-> 0]
    /\ sent = [s \in OldStreams |-> <<>>]
    /\ fetched = [u \in URLs |-> [page |-> 0, asset |-> 0]]
    /\ bodyFound = <<>>
    /\ assetRecs = <<>>
    /\ writeFailed = [s \in OldStreams |-> {}]
    /\ scopeU = NoURL
    /\ scopeRes = FALSE
    /\ fetchCall = NoCall
    /\ linksLeft = MaxLinks
    /\ bodyLeft = MaxBody
    /\ writeFailsLeft = 0
    /\ \E p \in CrawlPolicies : InScope = p[1] /\ OutScope = p[2]

\* go c.writeToFile(outputFile)
OldGoWriter ==
    /\ Running /\ pcMain = "goWriter"
    /\ pcMain' = "seed"
    /\ pcW' = "create"
    /\ UNCHANGED <<proc, nWorkers, Queue, Visited, WG, policy, wk, chClosed,
                   created, files, pcL, held, hist, pure, env>>

\* close(c.OutputCh)
OldClose ==
    /\ Running /\ pcMain = "closeIn"
    /\ chClosed' = [chClosed EXCEPT !["output"] = TRUE]
    /\ pcMain' = "log"
    /\ UNCHANGED <<proc, nWorkers, Queue, Visited, WG, policy, wk, sink, hist,
                   pure, env>>

\* os.Create(outputFile), log.Fatalf on error; the first header line; the
\* first range over c.OutputCh begins
OldCreate ==
    /\ Running /\ pcW = "create"
    /\ \E ok \in BOOLEAN :
         IF ok THEN /\ created' = {"output"}
                    /\ files' = [files EXCEPT
                                   !["output"].header = <<Header("in")>>]
                    /\ pcL' = [pcL EXCEPT !["output"] = "recv"]
                    /\ pcW' = "loopIn"
                    /\ proc' = proc
               ELSE /\ proc' = "fatal"
                    /\ UNCHANGED <<created, files, pcL, pcW>>
    /\ UNCHANGED <<pcMain, nWorkers, Queue, Visited, WG, policy, wk, chClosed,
                   held, hist, pure, env>>

\* first loop of writeToFile: if strings.HasPrefix(u, "In-scope") the record
\* is written (a failure is logged); a record of the other kind is passed over
OldLoopWrite ==
    /\ Running /\ pcW = "loopIn" /\ pcL["output"] = "write"
    /\ IF held["output"].kind = "In-scope"
         THEN \/ /\ files' = [files EXCEPT
                               !["output"].lines = Append(@, held["output"])]
                 /\ UNCHANGED <<writeFailed, writeFailsLeft>>
              \/ /\ writeFailsLeft > 0
                 /\ writeFailsLeft' = writeFailsLeft - 1
                 /\ writeFailed' = [writeFailed EXCEPT
                                      !["output"] = @ \cup {Len(sent["output"])}]
                 /\ UNCHANGED files
         ELSE UNCHANGED <<files, writeFailed, writeFailsLeft>>
    /\ held' = [held EXCEPT !["output"] = NoRec]
    /\ pcL' = [pcL EXCEPT !["output"] = "recv"]
    /\ UNCHANGED <<proc, pcMain, nWorkers, Queue, Visited, WG, policy, wk,
                   chClosed, pcW, created, passed, skipped, enqueued, sent,
                   fetched, bodyFound, assetRecs, linksLeft, bodyLeft, pure>>

\* the first range ends on the closed channel; the second header line; the
\* second range over the same closed, empty channel ends at once; return
OldLoopsExit ==
    /\ Running /\ pcW = "loopIn"
    /\ pcL["output"] = "recv" /\ chClosed["output"]
    /\ files' = [files EXCEPT !["output"].header = Append(@, Header("out"))]
    /\ pcL' = [pcL EXCEPT !["output"] = "done"]
    /\ pcW' = "returned"
    /\ UNCHANGED <<proc, pcMain, nWorkers, Queue, Visited, WG, policy, wk,
                   chClosed, created, held, hist, pure, env>>

\* occurrences of u in seq
Count(u, seq) == Cardinality({i \in 1..Len(seq) : seq[i] = u})

\* fetchURL(pageURL), html.Parse and extractLinks of the older variant, which
\* calls extractURLsFromScript itself for the candidates isCodeFile accepts
\* and appends the literals found to the candidates.  fetched counts one
\* asset fetch per such candidate; extractLinks repeats the fetch at every
\* enclosing node.
OldFetchPage(w) ==
    /\ Running /\ wk[w].pc = "fetch"
    /\ \E resp \in FetchOutcomes(wk[w].pageURL) :
         IF FetchFailed(resp)
           THEN /\ wk' = [wk EXCEPT ![w].pc = "done", ![w].failed = TRUE]
                /\ fetched' = [fetched EXCEPT ![wk[w].pageURL].page = @ + 1]
                /\ UNCHANGED <<linksLeft, bodyLeft, bodyFound>>
           ELSE \/ /\ wk' = [wk EXCEPT ![w].pc = "done",
                                       ![w].failed = TRUE]
                   /\ fetched' = [fetched EXCEPT ![wk[w].pageURL].page = @ + 1]
                   /\ UNCHANGED <<linksLeft, bodyLeft, bodyFound>>
                \/ \E links \in LinkSeqs, found \in BodySeqs :
                     /\ Len(links) <= linksLeft
                     /\ Len(found) <= bodyLeft
                     /\ found # <<>> =>
                            \E i \in 1..Len(links) : isCodeFile(links[i])
                     /\ linksLeft' = linksLeft - Len(links)
                     /\ bodyLeft' = bodyLeft - Len(found)
                     /\ bodyFound' = bodyFound \o found
                     /\ fetched' =
                          [u \in URLs |->
                             [page  |-> fetched[u].page
                                          + (IF u = wk[w].pageURL THEN 1 ELSE 0),
                              asset |-> fetched[u].asset
                                          + (IF isCodeFile(u)
                                               THEN Count(u, links) ELSE 0)]]
                     /\ wk' = [wk EXCEPT ![w].pc = "loop",
                                         ![w].urls = links \o found]
    /\ UNCHANGED <<proc, pcMain, nWorkers, Queue, Visited, WG, policy,
                   chClosed, sink, passed, skipped, enqueued, sent,
                   assetRecs, writeFailed, pure, writeFailsLeft>>

\* c.OutputCh <- "In-scope: " + u
OldSendIn(w) ==
    /\ Running /\ wk[w].pc = "sendIn"
    /\ \/ /\ ChanSend("output", InRec(Head(wk[w].urls)))
          /\ wk' = [wk EXCEPT ![w].pc = "enqueue"]
          /\ proc' = proc
       \/ SendPanics("output")
    /\ UNCHANGED <<pcMain, nWorkers, Queue, Visited, WG, policy, chClosed, pcW,
                   created, files, passed, skipped, enqueued, fetched,
                   trace, pure, env>>

\* c.OutputCh <- "Out-Of-Scope: " + u
OldSendOut(w) ==
    /\ Running /\ wk[w].pc = "sendOut"
    /\ \/ /\ ChanSend("output", OutRec(Head(wk[w].urls)))
          /\ wk' = [wk EXCEPT ![w].pc = "code"]
          /\ proc' = proc
       \/ SendPanics("output")
    /\ UNCHANGED <<pcMain, nWorkers, Queue, Visited, WG, policy, chClosed, pcW,
                   created, files, passed, skipped, enqueued, fetched,
                   trace, pure, env>>

\* the loop body of the older processURL ends here: the next candidate
OldNextCandidate(w) ==
    /\ Running /\ wk[w].pc = "code"
    /\ wk' = [wk EXCEPT ![w].pc = "loop", ![w].urls = Tail(@)]
    /\ UNCHANGED <<proc, pcMain, nWorkers, Queue, Visited, WG, policy,
                   chClosed, sink, hist, pure, env>>

OldMainStep == OldGoWriter \/ SeedQueue \/ SeedAdd \/ GoWorker \/ Wait
               \/ OldClose \/ Finish

OldWriterStep == OldCreate \/ OldLoopWrite \/ OldLoopsExit

OldWorkerStep(w) == Dequeue(w) \/ CheckVisited(w) \/ OldFetchPage(w)
                    \/ LoopStep(w) \/ OldSendIn(w) \/ Enqueue(w) \/ Add(w)
                    \/ OldSendOut(w) \/ OldNextCandidate(w) \/ Done(w)

NextOld == OldMainStep \/ OldWriterStep \/ \E w \in Workers : OldWorkerStep(w)

SpecOld == InitOld /\ [][NextOld]_vars

(***************************************************************************)
(* Properties                                                              *)
(***************************************************************************)
RECURSIVE SumOver(_, _)
SumOver(f, S) ==
    IF S = {} THEN 0
    ELSE LET x == CHOOSE y \in S : TRUE IN f[x] + SumOver(f, S \ {x})

IsPrefix(a, b) == Len(a) <= Len(b) /\ SubSeq(b, 1, Len(a)) = a

\* the first n elements of seq without those at the positions in skip
RECURSIVE KeptUpTo(_, _, _)
KeptUpTo(seq, skip, n) ==
    IF n = 0 THEN <<>>
    ELSE IF n \in skip THEN KeptUpTo(seq, skip, n - 1)
         ELSE Append(KeptUpTo(seq, skip, n - 1), seq[n])

\* records of intake s the writer loop has dealt with
Handled(s) == Len(sent[s]) - (IF pcL[s] = "write" THEN 1 ELSE 0)

MatchesAny(host, list) == \E i \in 1..Len(list) : HasSuffix(host, list[i])

RecordsIn(s, u) == Cardinality({ i \in 1..Len(sent[s]) : sent[s][i].url = u })
RecordsFor(u)   == RecordsIn("in", u) + RecordsIn("out", u)

WorkersIdle == \A w \in Workers : wk[w].pc \in {"off", "range"}
Seeded      == pcMain \notin {"goWriter", "seed", "add"}
PastWait    == pcMain \in {"closeIn", "closeOut", "log", "finished"}

\* C1: for every URL at most one processURL call passes the visited
\* check-and-set, whatever the interleaving of the workers; the other calls
\* return at the check, so the URL is fetched as a page at most once.
C1_OnePassPerURL ==
    \A u \in URLs : passed[u] <= 1 /\ fetched[u].page <= passed[u]

\* a second processURL call for a URL was turned away at the check while the
\* first call, on another worker, had passed it and had not yet returned
C1_Witness ==
    \E u \in URLs, w \in Workers :
        /\ skipped[u] >= 1 /\ passed[u] = 1
        /\ wk[w].pageURL = u
        /\ wk[w].pc \notin {"off", "range", "lock", "done"}

\* C2: with one worker, the counter is zero after seeding, and Crawl is past
\* WG.Wait, only when the queue is empty, the worker is in no processURL call,
\* and every send to the queue has been matched by a returned processURL call.
C2_ZeroMeansDrained ==
    ((Seeded /\ WG = 0) \/ PastWait) =>
        /\ Queue = <<>>
        /\ WorkersIdle
        /\ SumOver(enqueued, URLs) = SumOver(passed, URLs) + SumOver(skipped, URLs)

\* Crawl reported completion after the worker crawled a discovered URL
C2_Witness ==
    /\ pcMain = "finished"
    /\ SumOver(enqueued, URLs) >= 2
    /\ SumOver(passed, URLs) >= 2

\* C3: under fair scheduling, with output files that can be created, the
\* crawl eventually reports completion, however many in-scope links a page
\* carries.
C3_EventuallyFinished == <>(pcMain = "finished" \/ proc = "fatal")

\* C4: with a non-empty inScope list, isInScope of a valid URL is true exactly
\* when the host has a suffix in inScope and none in outScope (stated for
\* lists without the empty entry, which is a suffix of every host).
C4_OutScopeVetoes ==
    (/\ scopeU # NoURL /\ isValidURL(scopeU) /\ ParseOK(scopeU)
     /\ InScope # <<>>
     /\ \A i \in 1..Len(InScope) : InScope[i] # <<>>
     /\ \A i \in 1..Len(OutScope) : OutScope[i] # <<>>) =>
        (scopeRes <=> (MatchesAny(scopeU.host, InScope)
                       /\ ~MatchesAny(scopeU.host, OutScope)))

\* C5: with an inScope list of no entries, isInScope of a valid URL is true
\* when the host has no suffix in outScope and false when it has one.
C5_EmptyInScope ==
    (scopeU # NoURL /\ InScope = <<>> /\ isValidURL(scopeU) /\ ParseOK(scopeU)) =>
        (scopeRes <=> ~MatchesAny(scopeU.host, OutScope))

\* the classifier, with no inScope entry, turned down a valid URL whose host
\* has a suffix in outScope
C5_Witness ==
    /\ InScope = <<>> /\ OutScope # <<>>
    /\ scopeU # NoURL /\ isValidURL(scopeU) /\ ParseOK(scopeU)
    /\ MatchesAny(scopeU.host, OutScope)
    /\ scopeRes = FALSE

\* C6: when the -inscope flag is empty (inScope is the list [""]), a
\* discovered URL whose host has a suffix in outScope only gets Out-Of-Scope
\* records and is not enqueued.
C6_EmptyFlagIsNoConstraint ==
    (InScope = << <<>> >>) =>
        \A u \in URLs :
            MatchesAny(u.host, OutScope) =>
                /\ RecordsIn("in", u) = 0
                /\ u # Seed => enqueued[u] = 0

\* C7: every URL that is or was in the pending queue is the seed or a valid
\* URL that isInScope accepts; a URL isInScope turns down goes to the
\* out-of-scope intake only and, unless it is the seed, is never enqueued.
C7_QueueHoldsSeedOrInScope ==
    /\ \A u \in URLs : enqueued[u] > 0 => (u = Seed \/ (isValidURL(u) /\ isInScope(u)))
    /\ \A i \in 1..Len(Queue) :
           Queue[i] = Seed \/ (isValidURL(Queue[i]) /\ isInScope(Queue[i]))
    /\ \A i \in 1..Len(sent["out"]) :
           /\ ~isInScope(sent["out"][i].url)
           /\ sent["out"][i].kind = "Out-Of-Scope"
    /\ \A i \in 1..Len(sent["in"]) : isInScope(sent["in"][i].url)

\* a page carried an out-of-scope link and an in-scope link: the first got an
\* Out-Of-Scope record and was not enqueued, the second was enqueued
C7_Witness ==
    /\ RecordsIn("out", External) >= 1
    /\ enqueued[External] = 0
    /\ enqueued[ScriptJS] >= 1

\* C8: each distinct URL is sent to the pending queue at most once.
C8_EnqueuedAtMostOnce == \A u \in URLs : enqueued[u] <= 1

\* C9: for each distinct URL at most one record is sent to the output sink.
C9_OneRecordPerURL == \A u \in URLs : RecordsFor(u) <= 1

\* C10: fetchURL is called at most once per distinct URL, page fetches and
\* asset fetches counted together.
C10_FetchedAtMostOnce == \A u \in URLs : fetched[u].page + fetched[u].asset <= 1

\* C11: every URL with an In-scope record has also been sent to the pending
\* queue, whether it was found in an HTML attribute or in an asset body
\* (stated for the states in which no worker is inside a processURL call).
C11_InScopeRecordMeansEnqueued ==
    WorkersIdle =>
        \A u \in URLs : RecordsIn("in", u) > 0 => enqueued[u] > 0

\* C12: when Crawl has reported completion and main has returned, every
\* record sent to an intake has been appended to its destination file.
C12_NothingLostAtExit ==
    pcMain = "finished" =>
        \A s \in Streams : files[s].lines = sent[s]

\* C13: no fetch is issued before both output files have been created.
C13_NoFetchBeforeFiles ==
    (\E u \in URLs : fetched[u].page + fetched[u].asset > 0) =>
        created = Streams

\* C14: with NumWorkers workers, Crawl is past WG.Wait only when the queue is
\* empty and no worker is inside processURL, and no send hits a closed intake.
C14_NWorkersDrainedAtCompletion ==
    /\ PastWait => (Queue = <<>> /\ WorkersIdle)
    /\ proc # "panic"

\* C15: a candidate that fails isValidURL gets no record, is not enqueued and
\* is not fetched, neither as a page nor as an asset.
C15_InvalidIsDropped ==
    \A u \in URLs :
        ~isValidURL(u) =>
            /\ RecordsFor(u) = 0
            /\ enqueued[u] = 0
            /\ fetched[u].page + fetched[u].asset = 0

\* C16: a page whose fetch or parse fails is abandoned and the crawl goes on:
\* the failing step sends no record, enqueues nothing and leaves the counter
\* and the process alone; the next step of that worker is WG.Done, which
\* decrements the counter by one and takes the worker back to the queue.
C16_FailedPageIsAbandoned ==
    [][\A w \in Workers :
         /\ (wk[w].pc = "fetch" /\ wk'[w].pc = "done") =>
                /\ wk'[w].failed
                /\ sent' = sent /\ enqueued' = enqueued /\ Queue' = Queue
                /\ WG' = WG /\ proc' = proc
         /\ (wk[w].failed /\ wk'[w] # wk[w]) =>
                /\ wk[w].pc = "done"
                /\ WG' = WG - 1
                /\ wk'[w].pc = "range"
                /\ sent' = sent /\ enqueued' = enqueued /\ Queue' = Queue
                /\ proc' = "running"]_vars

\* a page has failed while URLs remain queued
C16_Witness ==
    \E w \in Workers :
        /\ wk[w].pc = "done" /\ wk[w].failed
        /\ Queue # <<>> /\ proc = "running"

\* C17: a call of fetchURL issues at most two requests: one when the first
\* answer is 200 without error, otherwise a second one to the same URL with
\* http and https exchanged, whose result it returns.
C17_AtMostTwoRequests ==
    fetchCall # NoCall =>
        LET u == fetchCall.u
            reqs == fetchCall.out.requests
            firstOK == ~fetchCall.r1.err /\ fetchCall.r1.status = StatusOK
        IN  /\ Len(reqs) <= 2
            /\ ~ParseOK(u) => reqs = <<>>
            /\ (ParseOK(u) /\ firstOK) =>
                   reqs = <<u>> /\ fetchCall.out.resp = fetchCall.r1
            /\ (ParseOK(u) /\ ~firstOK) =>
                   /\ Len(reqs) = 2 /\ reqs[1] = u
                   /\ reqs[2].host = u.host /\ reqs[2].path = u.path
                   /\ u.scheme = "http" => reqs[2].scheme = "https"
                   /\ u.scheme = "https" => reqs[2].scheme = "http"
                   /\ fetchCall.out.resp = fetchCall.r2

\* an https URL answered 404, asked again over http and answered 200
C17_Witness ==
    /\ fetchCall.u.scheme = "https"
    /\ fetchCall.r1 = [err |-> FALSE, status |-> 404]
    /\ Len(fetchCall.out.requests) = 2
    /\ fetchCall.out.requests[2].scheme = "http"
    /\ fetchCall.out.resp = [err |-> FALSE, status |-> StatusOK]

\* C18: every record a writer loop has taken from its intake and dealt with
\* is a line of the destination file, in the order taken, unless its
\* WriteString failed: no record is taken and passed over.
C18_TakenRecordsAreAppended ==
    \A s \in DOMAIN sent :
        files[s].lines = KeptUpTo(sent[s], writeFailed[s], Handled(s))

\* C19: every URL literal extractURLsFromScript found has yielded one record,
\* in the order found, on the intake isInScope chooses, except those the call
\* in progress still has to send; outside that call nothing is left to send,
\* so all are sent before processURL returns.
C19_AssetLiteralsYieldRecords ==
    /\ bodyFound = [i \in 1..Len(assetRecs) |-> assetRecs[i].rec.url]
                       \o wk[1].body
    /\ \A i \in 1..Len(assetRecs) :
         LET a == assetRecs[i]
         IN  IF isInScope(a.rec.url)
               THEN a.s = "in" /\ a.rec = InRec(a.rec.url)
               ELSE a.s = "out" /\ a.rec = OutRec(a.rec.url)
    /\ \A i \in 1..Len(assetRecs) :
         \E j \in 1..Len(sent[assetRecs[i].s]) :
             sent[assetRecs[i].s][j] = assetRecs[i].rec
    /\ wk[1].pc \notin {"assetLoop", "assetSendIn", "assetSendOut"} =>
           wk[1].body = <<>>

\* processURL is about to return and a literal found only in an asset body
\* has its record
C19_Witness ==
    /\ wk[1].pc = "done" /\ ~wk[1].failed
    /\ \E i \in 1..Len(assetRecs) :
         /\ RecordsFor(assetRecs[i].rec.url) = 1
         /\ enqueued[assetRecs[i].rec.url] = 0
    /\ bodyFound = [i \in 1..Len(assetRecs) |-> assetRecs[i].rec.url]

\* C20 as stated: the record lines of each file are a prefix of the records
\* sent to its intake.
C20_FileIsPrefixOfSent ==
    \A s \in Streams : IsPrefix(files[s].lines, sent[s])

\* C20 amended: the record lines of each file are, in send order, the records
\* taken from its intake whose WriteString did not fail; they are a prefix of
\* the records sent as long as no write on that intake has failed.
C20_FileKeepsSendOrder ==
    \A s \in Streams :
        /\ files[s].lines = KeptUpTo(sent[s], writeFailed[s], Handled(s))
        /\ writeFailed[s] = {} => IsPrefix(files[s].lines, sent[s])

\* a write failed on an intake and a later record of it was written
C20_Witness ==
    \E s \in Streams :
        /\ Len(sent[s]) >= 2
        /\ writeFailed[s] = {1}
        /\ files[s].lines = <<sent[s][2]>>

====
